---- MODULE Spec2Model ----
(***************************************************************************)
(* Model of send-bulk-test.py: a linear client of the notification API.    *)
(* main() builds the notification list, POSTs it to the bulk endpoint,     *)
(* sleeps, GETs the message logs, GETs the site metrics and prints         *)
(* summaries.  A blocking HTTP call is modelled by two steps: the request  *)
(* is issued (it becomes outstanding), then the server's answer arrives    *)
(* (a JSON object) or a requests.exceptions.RequestException is raised.    *)
(* Python dicts are functions from key strings to values; a missing key is *)
(* a key outside the DOMAIN.  Response bodies are JSON objects whose       *)
(* fields, when present, have the API's types (integers, lists of          *)
(* objects).                                                               *)
(***************************************************************************)
EXTENDS Integers, Sequences, FiniteSets, TLC

VARIABLES
    PHONE_NUMBERS,    \* module global, line 18
    EMAIL_ADDRESSES,  \* module global, line 29
    pc,               \* position of main()
    notifications,    \* main's local, line 123
    outstanding,      \* HTTP requests issued and not yet answered
    requests,         \* every HTTP request issued so far, in order
    trace,            \* externally visible steps so far, in order
    output,           \* lines printed so far (the ones the flow decides)
    response,         \* main's local, line 130
    elapsed_time,     \* main's local, line 134 (milliseconds)
    total_queued,     \* main's local, line 140
    logs,             \* main's local, line 163
    status_counts,    \* main's local, line 172
    channel_counts,   \* main's local, line 173
    metrics,          \* main's local, line 200
    raised,           \* exception that left main() uncaught, "" if none
    ret               \* value returned by main(): {} until it returns

vars == <<PHONE_NUMBERS, EMAIL_ADDRESSES, pc, notifications, outstanding,
          requests, trace, output, response, elapsed_time, total_queued,
          logs, status_counts, channel_counts, metrics, raised, ret>>

----------------------------------------------------------------------------
(* Bounds of the model *)

MaxRecipients == 2   \* longest phone / email list drawn for build_bulk_notifications
MaxMessages == 2     \* longest page of messages the logs endpoint returns
MaxTotal == 1        \* largest totalQueued / totalAccepted the server reports
MaxElapsed == 1      \* largest elapsed time of the POST (ms)

----------------------------------------------------------------------------
(* Module constants, lines 13-39 *)

API_URL == "http://localhost:8080/api/v1"
API_KEY == "Q8S7MnPJSHZlx2Sfz9NqV1mkKCWY188auuVEfyASoh8yCQYMwntUnt3j3Ud7nNErq_XULuYqDGKdMMTVBCy83g"

ConfiguredPhoneNumbers ==
    << "+918576882906", "+918910261784", "+917044345461", "+919836858910",
       "+917003999234", "+918335982196", "+919804969862" >>

ConfiguredEmailAddresses ==
    << "sourav@clapgrow.com", "souravns1997@gmail.com",
       "souravsingh2609@gmail.com", "singh.sourav2609@gmail.com" >>

EMAIL_SUBJECT == "Test Bulk Notification"
EMAIL_BODY == "Hello! This is a test bulk email notification. Testing the efficiency of the notification system."
WHATSAPP_BODY == "Hello! This is a test bulk WhatsApp notification. Testing the efficiency of the notification system."

SleepSeconds == 5
LogsPageSize == 50

----------------------------------------------------------------------------
(* Python dict and list helpers *)

EmptyDict == << >>

\* d.get(k, default)
Get(d, k, default) == IF k \in DOMAIN d THEN d[k] ELSE default

\* d with d[k] = v (k added when missing)
Put(d, k, v) == [x \in (DOMAIN d) \cup {k} |-> IF x = k THEN v ELSE d[x]]

\* all lists over S of length at most n
SeqUpTo(S, n) == UNION {[1..k -> S] : k \in 0..n}

\* all dicts whose keys are a subset of K, each key k with a value in V
DictsOver(K, V) == UNION {[S -> V] : S \in SUBSET K}

----------------------------------------------------------------------------
(* build_bulk_notifications, lines 42-64 *)

WhatsAppRecord(phone) ==
    [channel |-> "WHATSAPP", recipient |-> phone, body |-> WHATSAPP_BODY]

\* faulty variant: the email is flagged as HTML
EmailRecord_Html(email) ==
    [channel |-> "EMAIL", recipient |-> email, subject |-> EMAIL_SUBJECT,
     body |-> EMAIL_BODY, isHtml |-> TRUE]

EmailRecord(email) ==
    [channel |-> "EMAIL", recipient |-> email, subject |-> EMAIL_SUBJECT,
     body |-> EMAIL_BODY, isHtml |-> FALSE]

RECURSIVE AppendWhatsApp(_, _)
AppendWhatsApp(list, phones) ==
    IF phones = << >> THEN list
    ELSE AppendWhatsApp(Append(list, WhatsAppRecord(Head(phones))), Tail(phones))

RECURSIVE AppendEmail(_, _)
AppendEmail(list, emails) ==
    IF emails = << >> THEN list
    ELSE AppendEmail(Append(list, EmailRecord(Head(emails))), Tail(emails))

\* faulty variant: the two loops in the other order
build_bulk_notifications_EmailsFirst(phones, emails) ==
    AppendWhatsApp(AppendEmail(<< >>, emails), phones)

build_bulk_notifications(phones, emails) ==
    AppendEmail(AppendWhatsApp(<< >>, phones), emails)

----------------------------------------------------------------------------
(* The three requests, lines 67-108 *)

BulkUrl == API_URL \o "/notifications/send/bulk"
LogsUrl == API_URL \o "/messages/logs"
\* faulty variant: get_metrics asks the logs endpoint
MetricsUrl_SameAsLogs == API_URL \o "/messages/logs"
MetricsUrl == API_URL \o "/metrics/site/summary"

BulkHeaders == ("Content-Type" :> "application/json") @@ ("X-Site-Key" :> API_KEY)
LogsHeaders == ("X-Site-Key" :> API_KEY)
\* faulty variant: get_metrics sends no site key
MetricsHeaders_NoKey == EmptyDict
MetricsHeaders == ("X-Site-Key" :> API_KEY)

BulkRequest(list) ==
    [method |-> "POST", url |-> BulkUrl, headers |-> BulkHeaders,
     body |-> [notifications |-> list]]

LogsRequest(size) ==
    [method |-> "GET", url |-> LogsUrl, headers |-> LogsHeaders,
     body |-> [size |-> size]]

MetricsRequest ==
    [method |-> "GET", url |-> MetricsUrl, headers |-> MetricsHeaders,
     body |-> EmptyDict]

----------------------------------------------------------------------------
(* What the server may answer *)

Totals == 0..MaxTotal
Statuses == {"SENT"}
Channels == {"EMAIL", "WHATSAPP", "SMS"}

\* the message ids of the bulk-send response: none, a messageIds list, or a
\* results list whose entries may carry a messageId
MessageIdParts ==
    { EmptyDict,
      [messageIds |-> <<"m1">>],
      [results |-> <<[messageId |-> "m1"], EmptyDict>>] }

\* bodies of the bulk-send response: every field is optional
PostResponses ==
    { t @@ i : t \in DictsOver({"totalQueued", "totalAccepted"}, Totals),
               i \in MessageIdParts }

\* one entry of the log page: status and channel are optional
MessageDicts ==
    { s @@ c : s \in DictsOver({"status"}, Statuses),
               c \in DictsOver({"channel"}, Channels) }

\* bodies of the logs response: a page of messages with its totalElements,
\* or an object with neither field
LogsResponses ==
    {EmptyDict}
    \cup {[messages |-> ms, totalElements |-> Len(ms)] :
              ms \in SeqUpTo(MessageDicts, MaxMessages)}

\* bodies of the metrics response: passed through to json.dumps
MetricsResponses == {EmptyDict, [totalSent |-> MaxTotal]}

\* a RequestException carries a response (HTTPError) or none (ConnectionError)
RequestExceptions == {"ConnectionError", "HTTPError"}

\* elapsed times of the POST (ms): the shortest and the longest
ElapsedTimes == {0, MaxElapsed}

\* recipients the lists of build_bulk_notifications are drawn from
Phones == {ConfiguredPhoneNumbers[1], ConfiguredPhoneNumbers[2]}
Emails == {ConfiguredEmailAddresses[1], ConfiguredEmailAddresses[2]}

----------------------------------------------------------------------------
(* main(), lines 111-220 *)

Line(tag, n) == [tag |-> tag, n |-> n]

\* line 119: the total printed in the header
HeaderTotal(phones, emails) == Len(phones) + Len(emails)

\* line 140
TotalQueued(r) == Get(r, "totalQueued", Get(r, "totalAccepted", 0))

\* lines 144-145: the truthy messageId of each entry of results
RECURSIVE ResultIds(_)
ResultIds(results) ==
    IF results = << >> THEN << >>
    ELSE (IF Get(Head(results), "messageId", "") # ""
          THEN <<Head(results).messageId>> ELSE << >>)
         \o ResultIds(Tail(results))

\* lines 141-145
MessageIds(r) ==
    LET message_ids == Get(r, "messageIds", << >>)
    IN  IF message_ids = << >> /\ "results" \in DOMAIN r
        THEN ResultIds(Get(r, "results", << >>))
        ELSE message_ids

\* lines 152-153: the ids shown, at most five
ShownIds(ids) == SubSeq(ids, 1, IF Len(ids) > 5 THEN 5 ELSE Len(ids))

\* faulty variant: the guard lets a total of 0 through
PrintsAverage_NonNegative(total) == total >= 0

\* line 148: the guard of the average
PrintsAverage(total) == total > 0

\* line 149: elapsed_time/total_queued raises ZeroDivisionError on total 0
DivisionRaises(total) == total = 0
AverageTime(elapsed, total) == elapsed \div total

\* lines 176-180: one iteration of the loop over messages
CountStatus(counts, msg) ==
    LET status == Get(msg, "status", "UNKNOWN")
    IN  Put(counts, status, Get(counts, status, 0) + 1)

\* faulty variant: every channel gets a bucket, as every status does
CountChannel_AnyChannel(counts, msg) ==
    LET channel == Get(msg, "channel", "UNKNOWN")
    IN  Put(counts, channel, Get(counts, channel, 0) + 1)

CountChannel(counts, msg) ==
    LET channel == Get(msg, "channel", "UNKNOWN")
    IN  IF channel \in DOMAIN counts
        THEN [counts EXCEPT ![channel] = counts[channel] + 1]
        ELSE counts

\* lines 172-180: the loop, from the initial dicts
RECURSIVE CountMessages(_, _)
CountMessages(counts, messages) ==
    IF messages = << >> THEN counts
    ELSE CountMessages(
             [status |-> CountStatus(counts.status, Head(messages)),
              channel |-> CountChannel(counts.channel, Head(messages))],
             Tail(messages))

InitialCounts ==
    [status |-> EmptyDict, channel |-> [EMAIL |-> 0, WHATSAPP |-> 0]]

Issue(req) ==
    /\ outstanding' = outstanding \cup {req}
    /\ requests' = Append(requests, req)

\* lines 112-126: header, build_bulk_notifications(), start_time
Build ==
    /\ pc = "start"
    /\ output' = Append(output,
                   Line("header_total", HeaderTotal(PHONE_NUMBERS, EMAIL_ADDRESSES)))
    /\ notifications' = build_bulk_notifications(PHONE_NUMBERS, EMAIL_ADDRESSES)
    /\ trace' = Append(trace, "build")
    /\ pc' = "built"
    /\ UNCHANGED <<PHONE_NUMBERS, EMAIL_ADDRESSES, outstanding, requests,
                   response, elapsed_time, total_queued, logs, status_counts,
                   channel_counts, metrics, raised, ret>>

\* line 130 into send_bulk_notifications, lines 69-79: requests.post is called
SendPost ==
    /\ pc = "built"
    /\ output' = Append(output, Line("sending", Len(notifications)))
    /\ Issue(BulkRequest(notifications))
    /\ trace' = Append(trace, "post")
    /\ pc' = "posting"
    /\ UNCHANGED <<PHONE_NUMBERS, EMAIL_ADDRESSES, notifications, response,
                   elapsed_time, total_queued, logs, status_counts,
                   channel_counts, metrics, raised, ret>>

\* faulty variant: the handler lacks its return and falls through to the banner
RequestFails_FallsThrough(e) ==
    /\ pc \in {"posting", "getting_logs", "getting_metrics"}
    /\ outstanding' = {}
    /\ output' = output \o <<Line("error", 0), Line("completed", 0)>>
    /\ trace' = trace \o <<"fail", "return">>
    /\ ret' = {0}
    /\ pc' = "returned"
    /\ UNCHANGED <<PHONE_NUMBERS, EMAIL_ADDRESSES, notifications, requests,
                   response, elapsed_time, total_queued, logs, status_counts,
                   channel_counts, metrics, raised>>

\* faulty variant: the handler issues the failed request again
RequestFails_Retries(e) ==
    /\ pc \in {"posting", "getting_logs", "getting_metrics"}
    /\ requests' = Append(requests, CHOOSE q \in outstanding : TRUE)
    /\ output' = Append(output, Line("error", 0))
    /\ trace' = trace \o <<"fail", IF pc = "posting" THEN "post"
                                   ELSE IF pc = "getting_logs" THEN "get_logs"
                                   ELSE "get_metrics">>
    /\ UNCHANGED <<PHONE_NUMBERS, EMAIL_ADDRESSES, pc, notifications,
                   outstanding, response, elapsed_time, total_queued, logs,
                   status_counts, channel_counts, metrics, raised, ret>>

\* lines 204-208: the only handler; any of the three calls may raise into it
RequestFails(e) ==
    /\ pc \in {"posting", "getting_logs", "getting_metrics"}
    /\ outstanding' = {}
    /\ output' = IF e = "HTTPError"
                 THEN output \o <<Line("error", 0), Line("error_response", 0)>>
                 ELSE Append(output, Line("error", 0))
    /\ trace' = trace \o <<"fail", "return">>
    /\ ret' = {1}
    /\ pc' = "returned"
    /\ UNCHANGED <<PHONE_NUMBERS, EMAIL_ADDRESSES, notifications, requests,
                   response, elapsed_time, total_queued, logs, status_counts,
                   channel_counts, metrics, raised>>

\* faulty variant: no sleep between the POST's response and the logs GET
PostReturns_NoSleep(r, dt) ==
    /\ pc = "posting"
    /\ outstanding' = {LogsRequest(LogsPageSize)}
    /\ requests' = Append(requests, LogsRequest(LogsPageSize))
    /\ response' = r
    /\ elapsed_time' = dt
    /\ total_queued' = TotalQueued(r)
    /\ output' = Append(output, Line("queued", TotalQueued(r)))
    /\ trace' = trace \o <<"post_ok", "get_logs">>
    /\ pc' = "getting_logs"
    /\ UNCHANGED <<PHONE_NUMBERS, EMAIL_ADDRESSES, notifications, logs,
                   status_counts, channel_counts, metrics, raised, ret>>

\* lines 80-81 and 133-158: the POST returns r after dt ms; up to time.sleep(5)
PostReturns(r, dt) ==
    /\ pc = "posting"
    /\ outstanding' = {}
    /\ response' = r
    /\ elapsed_time' = dt
    /\ total_queued' = TotalQueued(r)
    /\ IF PrintsAverage(TotalQueued(r)) /\ DivisionRaises(TotalQueued(r))
       THEN /\ raised' = "ZeroDivisionError"
            /\ output' = Append(output, Line("queued", TotalQueued(r)))
            /\ trace' = trace \o <<"post_ok", "raise">>
            /\ pc' = "raised"
       ELSE /\ raised' = raised
            /\ output' =
                 output \o <<Line("queued", TotalQueued(r))>>
                 \o (IF PrintsAverage(TotalQueued(r))
                     THEN <<Line("average", AverageTime(dt, TotalQueued(r)))>>
                     ELSE << >>)
                 \o (IF MessageIds(r) # << >>
                     THEN <<Line("message_ids", Len(ShownIds(MessageIds(r))))>>
                     ELSE << >>)
                 \o <<Line("waiting", SleepSeconds)>>
            /\ trace' = trace \o <<"post_ok", "sleep">>
            /\ pc' = "sleeping"
    /\ UNCHANGED <<PHONE_NUMBERS, EMAIL_ADDRESSES, notifications, requests,
                   logs, status_counts, channel_counts, metrics, ret>>

\* faulty variant: the two GETs are swapped, metrics is fetched first
SleepElapses_FetchesMetrics ==
    /\ pc = "sleeping"
    /\ Issue(MetricsRequest)
    /\ trace' = trace \o <<"wake", "get_metrics">>
    /\ pc' = "getting_metrics"
    /\ UNCHANGED <<PHONE_NUMBERS, EMAIL_ADDRESSES, notifications, output,
                   response, elapsed_time, total_queued, logs, status_counts,
                   channel_counts, metrics, raised, ret>>

\* lines 158-163 into get_message_logs, lines 86-94: the sleep ends, requests.get is called
SleepElapses ==
    /\ pc = "sleeping"
    /\ Issue(LogsRequest(LogsPageSize))
    /\ trace' = trace \o <<"wake", "get_logs">>
    /\ pc' = "getting_logs"
    /\ UNCHANGED <<PHONE_NUMBERS, EMAIL_ADDRESSES, notifications, output,
                   response, elapsed_time, total_queued, logs, status_counts,
                   channel_counts, metrics, raised, ret>>

\* lines 95-96 and 165-200 into get_metrics, lines 101-106: the logs GET returns l
LogsReturns(l) ==
    /\ pc = "getting_logs"
    /\ logs' = l
    /\ LET counts == CountMessages(InitialCounts, Get(l, "messages", << >>))
       IN  /\ status_counts' = counts.status
           /\ channel_counts' = counts.channel
    /\ output' = Append(output, Line("logs_total", Get(l, "totalElements", 0)))
    /\ outstanding' = {MetricsRequest}
    /\ requests' = Append(requests, MetricsRequest)
    /\ trace' = trace \o <<"logs_ok", "get_metrics">>
    /\ pc' = "getting_metrics"
    /\ UNCHANGED <<PHONE_NUMBERS, EMAIL_ADDRESSES, notifications, response,
                   elapsed_time, total_queued, metrics, raised, ret>>

\* lines 107-108 and 201-220: the metrics GET returns m; banner; return 0
MetricsReturns(m) ==
    /\ pc = "getting_metrics"
    /\ outstanding' = {}
    /\ metrics' = m
    /\ output' = Append(output, Line("completed", 0))
    /\ trace' = trace \o <<"metrics_ok", "return">>
    /\ ret' = {0}
    /\ pc' = "returned"
    /\ UNCHANGED <<PHONE_NUMBERS, EMAIL_ADDRESSES, notifications, requests,
                   response, elapsed_time, total_queued, logs, status_counts,
                   channel_counts, raised>>

----------------------------------------------------------------------------
(* Specifications *)

Locals ==
    /\ pc = "start"
    /\ notifications = << >>
    /\ outstanding = {}
    /\ requests = << >>
    /\ trace = << >>
    /\ output = << >>
    /\ response = EmptyDict
    /\ elapsed_time = 0
    /\ total_queued = 0
    /\ logs = EmptyDict
    /\ status_counts = EmptyDict
    /\ channel_counts = EmptyDict
    /\ metrics = EmptyDict
    /\ raised = ""
    /\ ret = {}

\* the script as written: the configured recipients
Init ==
    /\ PHONE_NUMBERS = ConfiguredPhoneNumbers
    /\ EMAIL_ADDRESSES = ConfiguredEmailAddresses
    /\ Locals

Next ==
    \/ Build
    \/ SendPost
    \/ pc = "posting" /\ \E r \in PostResponses, dt \in ElapsedTimes : PostReturns(r, dt)
    \/ SleepElapses
    \/ pc = "getting_logs" /\ \E l \in LogsResponses : LogsReturns(l)
    \/ pc = "getting_metrics" /\ \E m \in MetricsResponses : MetricsReturns(m)
    \/ \E e \in RequestExceptions : RequestFails(e)

Spec == Init /\ [][Next]_vars

\* every blocking call returns or raises, and the sleep ends
FairSpec == Spec /\ WF_vars(Next)

\* build_bulk_notifications and the POST payload, for any recipient lists
InitBuild ==
    /\ PHONE_NUMBERS \in SeqUpTo(Phones, MaxRecipients)
    /\ EMAIL_ADDRESSES \in SeqUpTo(Emails, MaxRecipients)
    /\ Locals

NextBuild ==
    \/ Build
    \/ SendPost

SpecBuild == InitBuild /\ [][NextBuild]_vars

----------------------------------------------------------------------------
(* Reading the history *)

Has(t, e) == \E i \in DOMAIN t : t[i] = e
Count(t, e) == Cardinality({i \in DOMAIN t : t[i] = e})
IsPrefix(a, b) == Len(a) <= Len(b) /\ SubSeq(b, 1, Len(a)) = a
IsStep(e) == e \in {"build", "post", "sleep", "get_logs", "get_metrics"}
IsRequest(e) == e \in {"post", "get_logs", "get_metrics"}
IsAnswer(e) == e \in {"post_ok", "logs_ok", "metrics_ok", "fail"}
Urls == [i \in DOMAIN requests |-> requests[i].url]
Endpoints == {requests[i].url : i \in DOMAIN requests}
Printed(tag) == \E i \in DOMAIN output : output[i].tag = tag
Returned == pc = "returned"
Messages == Get(logs, "messages", << >>)

RECURSIVE SumOver(_, _)
SumOver(f, keys) ==
    IF keys = {} THEN 0
    ELSE LET k == CHOOSE x \in keys : TRUE
         IN  f[k] + SumOver(f, keys \ {k})
Sum(f) == SumOver(f, DOMAIN f)

----------------------------------------------------------------------------
(* C1: the externally visible steps of a run are always a prefix of build,  *)
(* POST, sleep, logs GET, metrics GET, in that order; the logs GET is       *)
(* issued only after the POST has returned and the sleep has ended, and     *)
(* the metrics GET only after the logs GET has returned.                    *)
C1_FixedOrder ==
    /\ IsPrefix(SelectSeq(trace, IsStep),
                <<"build", "post", "sleep", "get_logs", "get_metrics">>)
    /\ IsPrefix(Urls, <<BulkUrl, LogsUrl, MetricsUrl>>)
    /\ \A j \in DOMAIN trace :
         /\ trace[j] = "get_logs" =>
              /\ \E i \in 1..(j - 1) : trace[i] = "post_ok"
              /\ \E i \in 1..(j - 1) : trace[i] = "wake"
         /\ trace[j] = "get_metrics" =>
              \E i \in 1..(j - 1) : trace[i] = "logs_ok"

C1_Witness ==
    /\ Returned /\ ret = {0}
    /\ SelectSeq(trace, IsStep) = <<"build", "post", "sleep", "get_logs", "get_metrics">>

(* C2: once a call has raised a request exception the error is printed, no  *)
(* request is outstanding or issued afterwards and main() has returned 1;   *)
(* no endpoint is requested twice in a run.                                 *)
C2_NoRetry ==
    /\ Has(trace, "fail") =>
         /\ Returned /\ ret = {1}
         /\ outstanding = {}
         /\ Printed("error")
         /\ Count(trace, "fail") = 1
         /\ \A i, j \in DOMAIN trace :
              trace[i] = "fail" /\ i < j => ~IsRequest(trace[j])
    /\ \A i, j \in DOMAIN requests :
         requests[i].url = requests[j].url => i = j
    /\ Len(requests) = Cardinality({i \in DOMAIN trace : IsRequest(trace[i])})

C2_Witness ==
    /\ Has(trace, "fail") /\ Has(trace, "post_ok") /\ ~Has(trace, "logs_ok")
    /\ Len(requests) = 2

(* C3, as stated: a run in which every request succeeds requests exactly    *)
(* four distinct endpoints.                                                 *)
C3_FourEndpoints == ret = {0} => Cardinality(Endpoints) = 4

(* C3, amended: a run in which every request succeeds requests exactly      *)
(* three distinct endpoints: bulk send, message logs and site metrics.      *)
C3_ThreeEndpoints ==
    ret = {0} =>
        /\ Cardinality(Endpoints) = 3
        /\ Endpoints = {BulkUrl, LogsUrl, MetricsUrl}

C3_Witness == ret = {0} /\ Len(requests) = 3 /\ Has(trace, "metrics_ok")

C5_SiteKey ==
    \A i \in DOMAIN requests :
        /\ "X-Site-Key" \in DOMAIN requests[i].headers
        /\ requests[i].headers["X-Site-Key"] = API_KEY

C5_Witness ==
    /\ Len(requests) = 3
    /\ \A i \in DOMAIN requests : requests[i].headers["X-Site-Key"] = API_KEY

(* C6: every record built has channel, recipient and body; a WHATSAPP       *)
(* record has exactly these three with body WHATSAPP_BODY; an EMAIL record  *)
(* has exactly these plus subject EMAIL_SUBJECT and isHtml false, with body *)
(* EMAIL_BODY; there is no other channel.                                   *)
C6_RecordShape ==
    \A i \in DOMAIN notifications :
        LET n == notifications[i]
        IN  /\ {"channel", "recipient", "body"} \subseteq DOMAIN n
            /\ n.channel \in {"WHATSAPP", "EMAIL"}
            /\ n.channel = "WHATSAPP" =>
                 /\ DOMAIN n = {"channel", "recipient", "body"}
                 /\ n.body = WHATSAPP_BODY
            /\ n.channel = "EMAIL" =>
                 /\ DOMAIN n = {"channel", "recipient", "body", "subject", "isHtml"}
                 /\ n.body = EMAIL_BODY
                 /\ n.subject = EMAIL_SUBJECT
                 /\ n.isHtml = FALSE

C6_Witness ==
    /\ pc = "built"
    /\ \E i, j \in DOMAIN notifications :
         notifications[i].channel = "WHATSAPP" /\ notifications[j].channel = "EMAIL"

(* C7: the list built has one record per phone number followed by one per   *)
(* email address, each group in the order of its list and duplicates kept;  *)
(* the POST payload carries that list unchanged, so the header's total is   *)
(* the number of records sent.                                              *)
C7_OnePerRecipient ==
    /\ pc # "start" =>
         /\ Len(notifications) = Len(PHONE_NUMBERS) + Len(EMAIL_ADDRESSES)
         /\ \A i \in DOMAIN PHONE_NUMBERS :
              /\ notifications[i].channel = "WHATSAPP"
              /\ notifications[i].recipient = PHONE_NUMBERS[i]
         /\ \A j \in DOMAIN EMAIL_ADDRESSES :
              /\ notifications[Len(PHONE_NUMBERS) + j].channel = "EMAIL"
              /\ notifications[Len(PHONE_NUMBERS) + j].recipient = EMAIL_ADDRESSES[j]
    /\ \A i \in DOMAIN requests :
         requests[i].method = "POST" =>
             /\ requests[i].body = [notifications |-> notifications]
             /\ \E k \in DOMAIN output :
                  /\ output[k].tag = "header_total"
                  /\ output[k].n = Len(requests[i].body.notifications)
             /\ \E k \in DOMAIN output :
                  /\ output[k].tag = "sending"
                  /\ output[k].n = Len(requests[i].body.notifications)

C7_Witness ==
    /\ pc = "posting"
    /\ Len(PHONE_NUMBERS) = 2 /\ PHONE_NUMBERS[1] = PHONE_NUMBERS[2]
    /\ Len(EMAIL_ADDRESSES) = 2 /\ EMAIL_ADDRESSES[1] # EMAIL_ADDRESSES[2]
    /\ Len(requests[1].body.notifications) = 4

(* C8: main() terminates; it returns 0, with the banner printed, exactly    *)
(* when the POST and both GETs succeeded, and returns 1, with no banner,    *)
(* exactly when one of the three failed.                                    *)
C8_Outcome ==
    /\ ret \in {{}, {0}, {1}}
    /\ ret # {} <=> Returned
    /\ ret = {0} <=>
         Has(trace, "post_ok") /\ Has(trace, "logs_ok") /\ Has(trace, "metrics_ok")
    /\ ret = {1} <=> Has(trace, "fail")
    /\ Printed("completed") <=> ret = {0}
    /\ raised = ""

C9_Summary ==
    Has(trace, "logs_ok") =>
        /\ Sum(status_counts) = Len(Messages)
        /\ \A i \in DOMAIN Messages :
             Get(Messages[i], "status", "UNKNOWN") \in DOMAIN status_counts
        /\ \A s \in DOMAIN status_counts :
             status_counts[s] =
                 Cardinality({i \in DOMAIN Messages :
                                 Get(Messages[i], "status", "UNKNOWN") = s})
        /\ DOMAIN channel_counts = {"EMAIL", "WHATSAPP"}
        /\ \A c \in {"EMAIL", "WHATSAPP"} :
             channel_counts[c] =
                 Cardinality({i \in DOMAIN Messages :
                                 /\ "channel" \in DOMAIN Messages[i]
                                 /\ Messages[i].channel = c})
        /\ Sum(channel_counts) <= Len(Messages)

C9_Witness ==
    /\ Has(trace, "logs_ok") /\ Len(Messages) = 2
    /\ "status" \notin DOMAIN Messages[1] /\ "channel" \notin DOMAIN Messages[1]
    /\ Get(Messages[2], "channel", "") = "SMS"
    /\ status_counts["UNKNOWN"] = 1
    /\ Sum(channel_counts) = 0

(* C10: after a successful POST the queued total is totalQueued when        *)
(* present, else totalAccepted when present, else 0; the average is         *)
(* computed exactly when the total is above 0 and no division by zero       *)
(* occurs.                                                                  *)
C10_QueuedTotal ==
    /\ Has(trace, "post_ok") =>
         /\ total_queued =
              (IF "totalQueued" \in DOMAIN response THEN response["totalQueued"]
               ELSE IF "totalAccepted" \in DOMAIN response
                    THEN response["totalAccepted"]
                    ELSE 0)
         /\ Printed("average") <=> total_queued > 0
         /\ \A k \in DOMAIN output :
              output[k].tag = "average" => output[k].n = elapsed_time \div total_queued
    /\ raised # "ZeroDivisionError"

C10_Witness ==
    /\ pc = "sleeping"
    /\ DOMAIN response \cap {"totalQueued", "totalAccepted"} = {}
    /\ total_queued = 0
    /\ ~Printed("average")

====
